---------------------------- MODULE Spec2Model ----------------------------
(***************************************************************************)
(* Model of the backend of tidal-troi-ui:                                  *)
(*   - TidalAPIClient (src/backend/tidal_client.py): endpoint registry,    *)
(*     priority ordering with success history, sequential failover.        *)
(*   - DownloadStateManager (src/backend/download_state.py): the          *)
(*     persisted ledger of active / completed / failed downloads.          *)
(* SpecClient explores the client, SpecStore the download state store,     *)
(* SpecCache the client's download status cache, SpecSnapshot a caller     *)
(* holding a mapping returned by the store, SpecWriters two threads        *)
(* calling the store at once.                                              *)
(***************************************************************************)
EXTENDS Integers, Sequences, FiniteSets, TLC

VARIABLES
    \* ---- TidalAPIClient ----
    endpoints,          \* self.endpoints: list of {name, url, priority}
    success_history,    \* self.success_history: operation key -> record
    cnow,               \* time.time() as seen by the client
    cpc,                \* position of the caller in _make_request
    call,               \* arguments of the running _make_request call
    sorted_endpoints,   \* local of _make_request
    idx,                \* position of the for loop in sorted_endpoints
    events,             \* what the call has done so far: GETs and sleeps
    last_response,      \* the response handled by the last loop iteration
    result,             \* what the call returned (or that it raised)
    got200,             \* some endpoint answered HTTP 200 in this call
    ncalls,             \* number of _make_request calls started
    \* ---- DownloadStateManager ----
    state,              \* self.state: {"active", "completed", "failed"}
    disk,               \* the file download_state.json
    snow,               \* time.time() as seen by the store
    spc,                \* "new" (not constructed), "ready", "crashed"
    loaded,             \* what _load_state returned to __init__ (a local of
                        \* the construction: kept until the next step)
    last_call,          \* the last operation performed on the store
    wrote,              \* a mutating operation has written since __init__
    write_failed,       \* some write failed since __init__
    nops,               \* number of store operations performed
    nfail,              \* number of failed writes
    started_empty,      \* the first process found no document in the file
    \* ---- TidalAPIClient: download status cache ----
    download_status_cache,  \* self.download_status_cache: track_id -> entry
    know,               \* time.time() as seen by the cache
    puts,               \* per track_id, the status and time of the last
                        \* set_download_status not followed by a clear
    \* ---- a caller of get_all_active / get_all_completed / get_all_failed ----
    snapshot,           \* the dict the caller holds: key -> [shared, value];
                        \* shared: the value is the store's own entry object
    snap_of,            \* the category it was copied from, "none" before
    \* ---- two threads inside mutating operations of the store ----
    wpc,                \* per thread, its position in the operation
    wbuf                \* per thread, what json.dump put into its file object

clientVars == <<endpoints, success_history, cnow, cpc, call, sorted_endpoints,
                idx, events, last_response, result, got200, ncalls>>

storeVars == <<state, disk, snow, spc, loaded, last_call, wrote, write_failed,
               nops, nfail, started_empty>>

cacheVars == <<download_status_cache, know, puts>>

snapVars == <<snapshot, snap_of>>

writerVars == <<wpc, wbuf>>

vars == <<clientVars, storeVars, cacheVars, snapVars, writerVars>>

----------------------------------------------------------------------------
(* Bounds                                                                  *)

MaxCalls == 2

MaxOps == 2

MaxWriteFailures == 1

----------------------------------------------------------------------------
(* TidalAPIClient                                                          *)

\* Names of the built-in mirrors used in the model, in Python's string order
\* (sorted() compares the names as str).
NameOrder == <<"aether", "kraken", "zeus">>

Names == {NameOrder[i] : i \in 1..Len(NameOrder)}

NameRank(n) == CHOOSE i \in 1..Len(NameOrder) : NameOrder[i] = n

\* x['name'] < y['name'] for Python str
NameLess(a, b) == NameRank(a) < NameRank(b)

Url(n) == <<"https://", n, ".squid.wtf">>

Priorities == {1, 2}

Endpoint(n, p) == [name |-> n, url |-> Url(n), priority |-> p]

\* Orders of the registry list: the order of the built-in list (lines 24-36)
\* and an order read from api_endpoints.json.
RegistryOrders == {<<"kraken", "zeus", "aether">>, <<"aether", "kraken", "zeus">>}

\* The registries the model starts from (_load_endpoints): each order of the
\* mirrors, every assignment of a static priority to each.
Registries ==
    {[i \in 1..Len(p) |-> Endpoint(p[i], pr[p[i]])] :
        p \in RegistryOrders, pr \in [Names -> Priorities]}

\* x.get('priority', 999)
DefaultPriority == 999

GetPriority(x) ==
    IF "priority" \in DOMAIN x THEN x.priority ELSE DefaultPriority

\* the sort key with a fault: the name is left out of the key
KeyLess_priority_only(x, y) == GetPriority(x) < GetPriority(y)

\* key=lambda x: (x.get('priority', 999), x['name']) compared as tuples
KeyLess(x, y) ==
    \/ GetPriority(x) < GetPriority(y)
    \/ GetPriority(x) = GetPriority(y) /\ NameLess(x.name, y.name)

\* sorted(): a stable sort, as insertion of each element after the last
\* element that is not greater than it.
RECURSIVE Insert(_, _)
Insert(s, x) ==
    IF s = <<>> THEN <<x>>
    ELSE IF KeyLess(x, s[Len(s)]) THEN Insert(SubSeq(s, 1, Len(s) - 1), x) \o <<s[Len(s)]>>
    ELSE s \o <<x>>

RECURSIVE sorted(_)
sorted(s) ==
    IF s = <<>> THEN <<>>
    ELSE Insert(sorted(SubSeq(s, 1, Len(s) - 1)), s[Len(s)])

NoneOp == "None"

\* the operations of the public methods and their paths
Operations == {"search_tracks", "get_track", NoneOp}

PathOf(op) == IF op = "get_track" THEN "/track/" ELSE "/search/"

\* `operation` is truthy (neither None nor the empty string)
Truthy(operation) == operation # NoneOp /\ operation # ""

\* lines 53-56: for ep in endpoints: if ep['name'] == last_success['name']:
\*     ep = ep.copy(); ep['priority'] = 0
\* The copy with priority 0 is bound to the loop variable `ep` only; the list
\* `endpoints` keeps the element it had.
PromoteLoop(eps, last_success) ==
    LET ep(i) == IF eps[i].name = last_success.name
                 THEN [eps[i] EXCEPT !.priority = 0]
                 ELSE eps[i]
    IN  [i \in 1..Len(eps) |-> eps[i]]

sort_endpoints_by_priority(operation) ==
    LET copy == endpoints
        eps  == IF Truthy(operation) /\ operation \in DOMAIN success_history
                THEN PromoteLoop(copy, success_history[operation])
                ELSE copy
    IN  sorted(eps)

\* the registry with a fault: priority 0 is written into the registry's own
\* endpoint
registry_promoted_in_place(operation) ==
    IF Truthy(operation) /\ operation \in DOMAIN success_history
    THEN [i \in 1..Len(endpoints) |->
            IF endpoints[i].name = success_history[operation].name
            THEN [endpoints[i] EXCEPT !.priority = 0]
            ELSE endpoints[i]]
    ELSE endpoints

\* self.endpoints after _sort_endpoints_by_priority: line 50 copies the
\* list, line 55 copies the endpoint before line 56 assigns to it, and
\* sorted() (line 58) builds a new list
registry_after_sort(operation) == endpoints

\* _record_success: self.success_history[operation] = {...}
record_success(history, endpoint, operation, t) ==
    [k \in DOMAIN history \cup {operation} |->
        IF k = operation
        THEN [name |-> endpoint.name, url |-> endpoint.url, timestamp |-> t]
        ELSE history[k]]

\* time.sleep(2)
RateLimitDelay == 2

\* What one session.get can come to: a response with a status code, whose
\* body parses as JSON or not, or a requests.exceptions.RequestException.
\* (status 0 stands for "no response": the call raised instead)
TransportFailure == [status |-> 0, json_ok |-> FALSE]

Responses ==
    {[status |-> 200, json_ok |-> TRUE], [status |-> 200, json_ok |-> FALSE],
     [status |-> 429, json_ok |-> FALSE], [status |-> 500, json_ok |-> FALSE],
     [status |-> 404, json_ok |-> FALSE], [status |-> 503, json_ok |-> FALSE],
     TransportFailure}

\* response.json() of an unparsable body raises: a subclass of
\* RequestException with requests >= 2.27 (caught at line 87), a plain
\* ValueError before (not caught).
JsonErrors == {"RequestException", "ValueError"}

\* what response.json() of resp can raise; for a response whose body is
\* not read or parses, nothing
JsonErrorsOf(resp) ==
    IF resp.status = 200 /\ ~resp.json_ok THEN JsonErrors ELSE {"none"}

Pending == [kind |-> "pending", from |-> ""]
ReturnedNone == [kind |-> "None", from |-> ""]
Raised == [kind |-> "raised", from |-> ""]
Body(ep) == [kind |-> "body", from |-> ep.name]

\* the entries of `events`: session.get on an endpoint, time.sleep(d)
Get(ep) == [do |-> "GET", name |-> ep.name, secs |-> 0]
Sleep(d) == [do |-> "sleep", name |-> "", secs |-> d]

\* The branch of the loop body taken for a response (lines 73-88).
Branch(resp, jsonerr) ==
    IF resp = TransportFailure THEN "continue"
    ELSE IF resp.status = 429 THEN "sleep_continue"
    ELSE IF resp.status \in {500, 404} THEN "continue"
    ELSE IF resp.status = 200
         THEN IF resp.json_ok THEN "return"
              ELSE IF jsonerr = "RequestException" THEN "record_continue"
              ELSE "record_raise"
    ELSE "continue"

----------------------------------------------------------------------------
(* DownloadStateManager                                                    *)

TrackIds == {7, 8}

\* str(track_id): the keys of the three mappings are strings.  A key is
\* modelled with its Python type, so that an int key and the str key of the
\* same number differ.
StrKey(n) == <<"str", n>>
IntKey(n) == <<"int", n>>

\* track_id_str with a fault: the int itself is used as the key
track_id_int(track_id) == IntKey(track_id)

track_id_str(track_id) == StrKey(track_id)

EmptyMap == [k \in {} |-> 0]

EmptyState == [active |-> EmptyMap, completed |-> EmptyMap, failed |-> EmptyMap]

\* The optional `metadata` argument: <<>> is None, <<d>> the dict d (a set of
\* key/value pairs).
NoneMeta == <<>>
MetaArgs == {NoneMeta, <<{}>>, <<{<<"title", "x">>}>>}

\* metadata or {}
MetadataOrEmpty(m) == IF m = NoneMeta \/ m[1] = {} THEN {} ELSE m[1]

Progresses == {0, 50}
Filenames == {"a.flac", "b.flac"}
Errors == {"timeout"}

\* The instants at which the clock is read in the model.
max_age == 3600
Clock == {0, 1, max_age + 1}

\* d without the key k (del d[k])
Del(d, k) == [x \in DOMAIN d \ {k} |-> d[x]]

\* d[k] = v
Put(d, k, v) == [x \in DOMAIN d \cup {k} |-> IF x = k THEN v ELSE d[x]]

\* ---- the file -----------------------------------------------------------
\* json.dump turns every dict key into a string and keeps the values
\* (numbers, strings, dicts with string keys).
JsonKey(k) == <<"str", k[2]>>

JsonMap(d) ==
    LET src(jk) == CHOOSE k \in DOMAIN d : JsonKey(k) = jk
    IN  [jk \in {JsonKey(k) : k \in DOMAIN d} |-> d[src(jk)]]

json_dump(st) == [c \in DOMAIN st |-> JsonMap(st[c])]

Missing == [kind |-> "missing", doc |-> EmptyState]
Corrupt == [kind |-> "corrupt", doc |-> EmptyState]
JsonFile(doc) == [kind |-> "json", doc |-> doc]

\* a parsable document of the wrong shape: no "completed", no "failed"
WrongShape == JsonFile([active |-> EmptyMap])

\* _load_state (lines 17-28)
load_state(file) ==
    IF file.kind = "json" THEN file.doc ELSE EmptyState

\* How a write can end: done; mkdir/open raised (file untouched); the dump
\* raised after open(..., 'w') truncated the file.
WriteOutcomes == {"ok", "open_fails", "dump_fails"}

\* _save_state (lines 30-36): the file after writing st with outcome w
save_state(file, st, w) ==
    IF w = "ok" THEN JsonFile(json_dump(st))
    ELSE IF w = "open_fails" THEN file
    ELSE Corrupt

\* data.get("timestamp", 0)
GetTimestamp(data) == IF "timestamp" \in DOMAIN data THEN data.timestamp ELSE 0

\* expired_keys with a fault: entries of age max_age expire too
expired_keys_ge(st, category, current_time) ==
    {k \in DOMAIN st[category] :
        current_time - GetTimestamp(st[category][k]) >= max_age}

\* lines 43-46
expired_keys(st, category, current_time) ==
    {k \in DOMAIN st[category] :
        current_time - GetTimestamp(st[category][k]) > max_age}

\* lines 42-48: both categories swept
cleanup_old_entries(st, current_time) ==
    [st EXCEPT
        !.completed = [k \in DOMAIN st.completed
                            \ expired_keys(st, "completed", current_time)
                        |-> st.completed[k]],
        !.failed = [k \in DOMAIN st.failed
                            \ expired_keys(st, "failed", current_time)
                        |-> st.failed[k]]]

\* line 50: `expired_keys` is the list left by the last pass of the loop,
\* the one of "failed"
cleanup_saves(st, current_time) == expired_keys(st, "failed", current_time) # {}

\* get_download_state (lines 53-74)
NoState == [status |-> "None"]

get_download_state(st, track_id) ==
    LET k == track_id_str(track_id)
    IN  IF k \in DOMAIN st.active
        THEN [status |-> "downloading", entry |-> st.active[k]]
        ELSE IF k \in DOMAIN st.completed
        THEN [status |-> "completed", entry |-> st.completed[k]]
        ELSE IF k \in DOMAIN st.failed
        THEN [status |-> "failed", entry |-> st.failed[k]]
        ELSE NoState

\* the in-memory effect of each mutating operation
set_downloading_state(st, track_id, progress, metadata, t) ==
    [st EXCEPT !.active = Put(st.active, track_id_str(track_id),
        [progress |-> progress, timestamp |-> t,
         metadata |-> MetadataOrEmpty(metadata)])]

update_progress_state(st, track_id, progress, t) ==
    LET k == track_id_str(track_id)
    IN  [st EXCEPT !.active[k].progress = progress, !.active[k].timestamp = t]

\* set_completed_state with a fault: the active entry is left in place
set_completed_keeps_active(st, track_id, filename, metadata, t) ==
    [st EXCEPT !.completed = Put(st.completed, track_id_str(track_id),
        [filename |-> filename, timestamp |-> t,
         metadata |-> MetadataOrEmpty(metadata)])]

set_completed_state(st, track_id, filename, metadata, t) ==
    LET k == track_id_str(track_id)
        a == IF k \in DOMAIN st.active THEN Del(st.active, k) ELSE st.active
    IN  [st EXCEPT !.active = a,
                   !.completed = Put(st.completed, k,
                       [filename |-> filename, timestamp |-> t,
                        metadata |-> MetadataOrEmpty(metadata)])]

set_failed_state(st, track_id, error, metadata, t) ==
    LET k == track_id_str(track_id)
        a == IF k \in DOMAIN st.active THEN Del(st.active, k) ELSE st.active
    IN  [st EXCEPT !.active = a,
                   !.failed = Put(st.failed, k,
                       [error |-> error, timestamp |-> t,
                        metadata |-> MetadataOrEmpty(metadata)])]

clear_download_state(st, track_id) ==
    LET k == track_id_str(track_id)
    IN  [c \in DOMAIN st |-> IF k \in DOMAIN st[c] THEN Del(st[c], k) ELSE st[c]]

\* an entry of last_call: the operation, its track_id, its filename or error
\* (text), its progress (num), and whether the item was active before it
Call(op, track_id, text, num, st) ==
    [op |-> op, id |-> track_id, text |-> text, num |-> num,
     was_active |-> track_id_str(track_id) \in DOMAIN st.active]

NoCall == [op |-> "none", id |-> 0, text |-> "", num |-> 0, was_active |-> FALSE]

----------------------------------------------------------------------------
(* TidalAPIClient: download status cache (lines 113-137)                   *)

CacheIds == {1, 2}

\* the opaque status documents
Statuses == {"queued", "downloading"}

\* the 300 of lines 116 and 134
status_ttl == 300

\* The instants at which the cache's clock is read in the model.
CacheClock == {0, 1, status_ttl - 1, status_ttl, status_ttl + 1, status_ttl + 2}

NoStatus == [kind |-> "None", status |-> ""]
SomeStatus(s) == [kind |-> "status", status |-> s]

\* get_download_status with a fault: the age of the entry is not looked at
get_download_status_no_ttl(cache, track_id, t) ==
    IF track_id \in DOMAIN cache
    THEN SomeStatus(cache[track_id].status)
    ELSE NoStatus

\* get_download_status (lines 113-118), called at time t
get_download_status(cache, track_id, t) ==
    IF track_id \in DOMAIN cache /\ t - cache[track_id].timestamp < status_ttl
    THEN SomeStatus(cache[track_id].status)
    ELSE NoStatus

\* the cache is not part of a specification
CacheIdle ==
    /\ download_status_cache = EmptyMap
    /\ know = 0
    /\ puts = EmptyMap

\* set_download_status (lines 120-124)
set_download_status(track_id, status) ==
    /\ download_status_cache' =
        Put(download_status_cache, track_id, [status |-> status, timestamp |-> know])
    /\ puts' = Put(puts, track_id, [status |-> status, timestamp |-> know])
    /\ UNCHANGED <<know, clientVars, storeVars, snapVars, writerVars>>

\* clear_download_status (lines 126-128)
clear_download_status(track_id) ==
    /\ download_status_cache' =
        IF track_id \in DOMAIN download_status_cache
        THEN Del(download_status_cache, track_id)
        ELSE download_status_cache
    /\ puts' = Del(puts, track_id)
    /\ UNCHANGED <<know, clientVars, storeVars, snapVars, writerVars>>

\* cleanup_old_status_cache (lines 130-137)
cleanup_old_status_cache ==
    /\ LET current_time == know
           expired == {track_id \in DOMAIN download_status_cache :
                current_time - download_status_cache[track_id].timestamp > status_ttl}
       IN  download_status_cache' =
                [track_id \in DOMAIN download_status_cache \ expired |->
                    download_status_cache[track_id]]
    /\ UNCHANGED <<know, puts, clientVars, storeVars, snapVars, writerVars>>

\* time passes
cache_tick(t) ==
    /\ t > know
    /\ know' = t
    /\ UNCHANGED <<download_status_cache, puts, clientVars, storeVars, snapVars, writerVars>>

----------------------------------------------------------------------------
(* DownloadStateManager: get_all_active / get_all_completed /              *)
(* get_all_failed (lines 129-136) and what a caller does with the result   *)

\* no mapping has been handed out
SnapIdle ==
    /\ snapshot = EmptyMap
    /\ snap_of = "none"

\* dict.copy(): a new dict whose values are the very objects of the
\* original
ShallowCopy(mapping) ==
    [k \in DOMAIN mapping |-> [shared |-> TRUE, value |-> mapping[k]]]

\* self.state[category].copy() (lines 130, 133, 136)
get_all(category) ==
    /\ spc = "ready"
    /\ snapshot' = ShallowCopy(state[category])
    /\ snap_of' = category
    /\ UNCHANGED <<storeVars, clientVars, cacheVars, writerVars>>

get_all_active == get_all("active")

get_all_completed == get_all("completed")

get_all_failed == get_all("failed")

\* what the caller writes into an entry
FieldValues(field) ==
    CASE field = "progress" -> {99}
      [] field = "timestamp" -> {5}
      [] field = "filename" -> {"x.flac"}
      [] field = "error" -> {"x"}
      [] OTHER -> {}

\* the caller runs  result[k] = {...}
caller_add(k) ==
    /\ snap_of # "none"
    /\ snapshot' = Put(snapshot, k, [shared |-> FALSE, value |-> [timestamp |-> 5]])
    /\ UNCHANGED <<snap_of, storeVars, clientVars, cacheVars, writerVars>>

\* the caller runs  del result[k]
caller_del(k) ==
    /\ snap_of # "none"
    /\ k \in DOMAIN snapshot
    /\ snapshot' = Del(snapshot, k)
    /\ UNCHANGED <<snap_of, storeVars, clientVars, cacheVars, writerVars>>

\* the caller runs  result[k][field] = val : the entry object is changed,
\* and with it every dict that holds this object
caller_set(k, field, val) ==
    /\ snap_of # "none"
    /\ k \in DOMAIN snapshot
    /\ field \in DOMAIN snapshot[k].value
    /\ val \in FieldValues(field)
    /\ snapshot' = [snapshot EXCEPT ![k].value[field] = val]
    /\ state' = IF snapshot[k].shared
                THEN [state EXCEPT ![snap_of][k][field] = val]
                ELSE state
    /\ UNCHANGED <<snap_of, disk, snow, spc, loaded, last_call, wrote,
                   write_failed, nops, nfail, started_empty>>
    /\ UNCHANGED <<clientVars, cacheVars, writerVars>>

----------------------------------------------------------------------------
(* DownloadStateManager called from two threads: each mutating operation   *)
(* (lines 76-118) is the change of self.state followed by _save_state      *)
(* (lines 30-36), whose open, json.dump and close are separate steps       *)

Threads == {1, 2}

NoBuffer == [full |-> FALSE, doc |-> EmptyState]

WritersIdle ==
    /\ wpc = [t \in Threads |-> "idle"]
    /\ wbuf = [t \in Threads |-> NoBuffer]

\* the size of the text of a document, counted in entries
DocLen(doc) ==
    Cardinality(DOMAIN doc.active) + Cardinality(DOMAIN doc.completed)
        + Cardinality(DOMAIN doc.failed)

\* the file after a file object opened with 'w' flushes the text of doc at
\* offset 0: a longer text stays behind the written one; texts of as many
\* entries may differ in length either way
Overlay(file, doc) ==
    IF file.kind = "json" /\ file.doc = doc THEN {file}
    ELSE IF DocLen(doc) > DocLen(file.doc) THEN {JsonFile(doc)}
    ELSE IF DocLen(doc) < DocLen(file.doc) THEN {[kind |-> "corrupt", doc |-> file.doc]}
    ELSE {JsonFile(doc), [kind |-> "corrupt", doc |-> file.doc]}

\* the change of self.state, before _save_state is entered
w_mutate(t, st, c) ==
    /\ spc = "ready"
    /\ wpc[t] = "idle"
    /\ state' = st
    /\ last_call' = c
    /\ wpc' = [wpc EXCEPT ![t] = "mutated"]
    /\ UNCHANGED <<wbuf, disk, snow, loaded, wrote, write_failed, nops, nfail,
                   started_empty, spc>>
    /\ UNCHANGED <<clientVars, cacheVars, snapVars>>

\* lines 78-83
w_set_downloading(t, track_id, progress) ==
    w_mutate(t, set_downloading_state(state, track_id, progress, NoneMeta, snow),
             Call("set_downloading", track_id, "", progress, state))

\* lines 88-91; line 89: without an active entry the call returns at once
w_update_progress(t, track_id, progress) ==
    IF track_id_str(track_id) \in DOMAIN state.active
    THEN w_mutate(t, update_progress_state(state, track_id, progress, snow),
                  Call("update_progress", track_id, "", progress, state))
    ELSE /\ spc = "ready"
         /\ wpc[t] = "idle"
         /\ wpc' = [wpc EXCEPT ![t] = "returned"]
         /\ last_call' = Call("update_progress", track_id, "", progress, state)
         /\ UNCHANGED <<wbuf, state, disk, snow, loaded, wrote, write_failed, nops,
                        nfail, started_empty, spc>>
         /\ UNCHANGED <<clientVars, cacheVars, snapVars>>

\* lines 96-104
w_set_completed(t, track_id, filename) ==
    w_mutate(t, set_completed_state(state, track_id, filename, NoneMeta, snow),
             Call("set_completed", track_id, filename, 0, state))

\* lines 109-117
w_set_failed(t, track_id, error) ==
    w_mutate(t, set_failed_state(state, track_id, error, NoneMeta, snow),
             Call("set_failed", track_id, error, 0, state))

\* line 34: open(self.state_file, 'w') leaves an empty file
w_open(t) ==
    /\ wpc[t] = "mutated"
    /\ disk' = Corrupt
    /\ wpc' = [wpc EXCEPT ![t] = "opened"]
    /\ UNCHANGED <<wbuf, state, snow, loaded, last_call, wrote, write_failed, nops,
                   nfail, started_empty, spc>>
    /\ UNCHANGED <<clientVars, cacheVars, snapVars>>

\* line 35: json.dump(self.state, f) serialises self.state as it is now
\* into the buffer of the file object
w_dump(t) ==
    /\ wpc[t] = "opened"
    /\ wbuf' = [wbuf EXCEPT ![t] = [full |-> TRUE, doc |-> json_dump(state)]]
    /\ wpc' = [wpc EXCEPT ![t] = "dumped"]
    /\ UNCHANGED <<state, disk, snow, loaded, last_call, wrote, write_failed, nops,
                   nfail, started_empty, spc>>
    /\ UNCHANGED <<clientVars, cacheVars, snapVars>>

\* end of the with block (line 34): the buffer is flushed to the file
w_close(t) ==
    /\ wpc[t] = "dumped"
    /\ disk' \in Overlay(disk, wbuf[t].doc)
    /\ wbuf' = [wbuf EXCEPT ![t] = NoBuffer]
    /\ wpc' = [wpc EXCEPT ![t] = "done"]
    /\ UNCHANGED <<state, snow, loaded, last_call, wrote, write_failed, nops,
                   nfail, started_empty, spc>>
    /\ UNCHANGED <<clientVars, cacheVars, snapVars>>

\* Documents an earlier process left in the file.
OldDocs ==
    {[active |-> (StrKey(8) :> [progress |-> 50, timestamp |-> 0, metadata |-> {}]),
      completed |-> (StrKey(7) :> [filename |-> "a.flac", timestamp |-> 0,
                                   metadata |-> {}]),
      failed |-> EmptyMap],
     [active |-> EmptyMap,
      completed |-> (StrKey(8) :> [filename |-> "b.flac", timestamp |-> 1,
                                   metadata |-> {}]),
      failed |-> (StrKey(7) :> [error |-> "timeout", timestamp |-> 0,
                                metadata |-> {}])]}

InitStore ==
    /\ state = EmptyState
    /\ disk \in {Missing, Corrupt, WrongShape} \cup {JsonFile(d) : d \in OldDocs}
    /\ snow = 0
    /\ spc = "new"
    /\ loaded = EmptyState
    /\ last_call = NoCall
    /\ wrote = FALSE
    /\ write_failed = FALSE
    /\ nops = 0
    /\ nfail = 0
    /\ started_empty = (disk.kind # "json")
    \* the client is not part of this specification
    /\ endpoints = <<>>
    /\ success_history = <<>>
    /\ cnow = 0
    /\ cpc = "idle"
    /\ call = [path |-> "", operation |-> NoneOp]
    /\ sorted_endpoints = <<>>
    /\ idx = 0
    /\ events = <<>>
    /\ last_response = TransportFailure
    /\ result = Pending
    /\ got200 = FALSE
    /\ ncalls = 0
    /\ CacheIdle
    /\ SnapIdle
    /\ WritersIdle

\* whether a write may end with outcome w in the model
MayWrite(w) == w = "ok" \/ nfail < MaxWriteFailures

\* the bookkeeping of one write with outcome w by a mutating operation
Written(st, w) ==
    /\ disk' = save_state(disk, st, w)
    /\ wrote' = TRUE
    /\ write_failed' = (write_failed \/ w # "ok")
    /\ nfail' = IF w = "ok" THEN nfail ELSE nfail + 1

\* __init__ (lines 9-15), run by the module-level singleton (line 138)
construct(w) ==
    /\ spc = "new"
    /\ MayWrite(w)
    /\ LET st == load_state(disk)
       IN  /\ loaded' = st
           /\ IF {"completed", "failed"} \subseteq DOMAIN st
              THEN /\ state' = cleanup_old_entries(st, snow)
                   /\ spc' = "ready"
                   /\ last_call' = [NoCall EXCEPT !.op = "construct"]
                   /\ IF cleanup_saves(st, snow)
                      THEN /\ disk' = save_state(disk, state', w)
                           /\ write_failed' = (w # "ok")
                           /\ nfail' = IF w = "ok" THEN nfail ELSE nfail + 1
                      ELSE /\ w = "ok"
                           /\ UNCHANGED <<disk, nfail>>
                           /\ write_failed' = FALSE
              ELSE \* self.state[category] raises KeyError
                   /\ w = "ok"
                   /\ state' = st
                   /\ spc' = "crashed"
                   /\ last_call' = [NoCall EXCEPT !.op = "construct_raised"]
                   /\ write_failed' = FALSE
                   /\ UNCHANGED <<disk, nfail>>
    /\ wrote' = FALSE
    /\ UNCHANGED <<snow, nops>>
    /\ UNCHANGED <<started_empty, clientVars, cacheVars, snapVars, writerVars>>

CanCall == spc = "ready" /\ nops < MaxOps

set_downloading(track_id, progress, metadata, w) ==
    /\ CanCall /\ MayWrite(w)
    /\ state' = set_downloading_state(state, track_id, progress, metadata, snow)
    /\ Written(state', w)
    /\ last_call' = Call("set_downloading", track_id, "", progress, state)
    /\ nops' = nops + 1
    /\ loaded' = EmptyState
    /\ UNCHANGED <<snow, spc>>
    /\ UNCHANGED <<started_empty, clientVars, cacheVars, snapVars, writerVars>>

\* update_progress with a fault: an item that is not active is made active
update_progress_creates(track_id, progress, w) ==
    /\ CanCall /\ MayWrite(w)
    /\ state' = set_downloading_state(state, track_id, progress, NoneMeta, snow)
    /\ Written(state', w)
    /\ last_call' = Call("update_progress", track_id, "", progress, state)
    /\ nops' = nops + 1
    /\ loaded' = EmptyState
    /\ UNCHANGED <<snow, spc>>
    /\ UNCHANGED <<started_empty, clientVars, cacheVars, snapVars, writerVars>>

update_progress(track_id, progress, w) ==
    /\ CanCall /\ MayWrite(w)
    /\ IF track_id_str(track_id) \in DOMAIN state.active
       THEN /\ state' = update_progress_state(state, track_id, progress, snow)
            /\ Written(state', w)
       ELSE /\ w = "ok"
            /\ UNCHANGED <<state, disk, wrote, write_failed, nfail>>
    /\ last_call' = Call("update_progress", track_id, "", progress, state)
    /\ nops' = nops + 1
    /\ loaded' = EmptyState
    /\ UNCHANGED <<snow, spc>>
    /\ UNCHANGED <<started_empty, clientVars, cacheVars, snapVars, writerVars>>

set_completed(track_id, filename, metadata, w) ==
    /\ CanCall /\ MayWrite(w)
    /\ state' = set_completed_state(state, track_id, filename, metadata, snow)
    /\ Written(state', w)
    /\ last_call' = Call("set_completed", track_id, filename, 0, state)
    /\ nops' = nops + 1
    /\ loaded' = EmptyState
    /\ UNCHANGED <<snow, spc>>
    /\ UNCHANGED <<started_empty, clientVars, cacheVars, snapVars, writerVars>>

set_failed(track_id, error, metadata, w) ==
    /\ CanCall /\ MayWrite(w)
    /\ state' = set_failed_state(state, track_id, error, metadata, snow)
    /\ Written(state', w)
    /\ last_call' = Call("set_failed", track_id, error, 0, state)
    /\ nops' = nops + 1
    /\ loaded' = EmptyState
    /\ UNCHANGED <<snow, spc>>
    /\ UNCHANGED <<started_empty, clientVars, cacheVars, snapVars, writerVars>>

clear_download(track_id, w) ==
    /\ CanCall /\ MayWrite(w)
    /\ state' = clear_download_state(state, track_id)
    /\ Written(state', w)
    /\ last_call' = Call("clear_download", track_id, "", 0, state)
    /\ nops' = nops + 1
    /\ loaded' = EmptyState
    /\ UNCHANGED <<snow, spc>>
    /\ UNCHANGED <<started_empty, clientVars, cacheVars, snapVars, writerVars>>

\* time passes
tick(t) ==
    /\ t > snow
    /\ snow' = t
    /\ last_call' = [NoCall EXCEPT !.op = "tick"]
    /\ loaded' = EmptyState
    /\ UNCHANGED <<state, disk, spc, wrote, write_failed, nops, nfail>>
    /\ UNCHANGED <<started_empty, clientVars, cacheVars, snapVars, writerVars>>

\* the process ends and the module is imported again: the object is gone,
\* the file stays
restart ==
    /\ spc \in {"ready", "crashed"}
    /\ spc' = "new"
    /\ state' = EmptyState
    /\ loaded' = EmptyState
    /\ last_call' = NoCall
    /\ wrote' = FALSE
    /\ write_failed' = FALSE
    /\ UNCHANGED <<disk, snow, nops, nfail>>
    /\ UNCHANGED <<started_empty, clientVars, cacheVars, snapVars, writerVars>>

InitClient ==
    /\ endpoints \in Registries
    /\ success_history = <<>>
    /\ cnow = 0
    /\ cpc = "idle"
    /\ call = [path |-> "", operation |-> NoneOp]
    /\ sorted_endpoints = <<>>
    /\ idx = 0
    /\ events = <<>>
    /\ last_response = TransportFailure
    /\ result = Pending
    /\ got200 = FALSE
    /\ ncalls = 0
    \* the store is not part of this specification
    /\ state = EmptyState
    /\ disk = Missing
    /\ snow = 0
    /\ spc = "new"
    /\ loaded = EmptyState
    /\ last_call = NoCall
    /\ wrote = FALSE
    /\ write_failed = FALSE
    /\ nops = 0
    /\ nfail = 0
    /\ started_empty = TRUE
    /\ CacheIdle
    /\ SnapIdle
    /\ WritersIdle

\* lines 67-68: entry of _make_request
make_request(operation) ==
    /\ cpc \in {"idle", "done"}
    /\ ncalls < MaxCalls
    /\ ncalls' = ncalls + 1
    /\ call' = [path |-> PathOf(operation), operation |-> operation]
    /\ sorted_endpoints' = sort_endpoints_by_priority(operation)
    /\ idx' = 1
    /\ events' = <<>>
    /\ result' = Pending
    /\ got200' = FALSE
    /\ cpc' = "loop"
    /\ last_response' = TransportFailure
    /\ endpoints' = registry_after_sort(operation)
    /\ UNCHANGED <<success_history, cnow>>
    /\ UNCHANGED <<storeVars, cacheVars, snapVars, writerVars>>

\* lines 70-88: one iteration of the for loop
attempt(resp, jsonerr) ==
    /\ cpc = "loop"
    /\ idx <= Len(sorted_endpoints)
    /\ LET endpoint == sorted_endpoints[idx]
           branch   == Branch(resp, jsonerr)
           key      == IF Truthy(call.operation) THEN call.operation ELSE call.path
       IN  /\ last_response' = resp
           /\ got200' = (got200 \/ (resp # TransportFailure /\ resp.status = 200))
           /\ events' = IF branch = "sleep_continue"
                        THEN events \o <<Get(endpoint), Sleep(RateLimitDelay)>>
                        ELSE Append(events, Get(endpoint))
           /\ cnow' = IF branch = "sleep_continue" THEN cnow + RateLimitDelay ELSE cnow
           /\ success_history' =
                IF branch \in {"return", "record_continue", "record_raise"}
                THEN record_success(success_history, endpoint, key, cnow)
                ELSE success_history
           /\ IF branch = "return"
              THEN result' = Body(endpoint) /\ cpc' = "done" /\ idx' = idx
              ELSE IF branch = "record_raise"
              THEN result' = Raised /\ cpc' = "done" /\ idx' = idx
              ELSE result' = result /\ cpc' = "loop" /\ idx' = idx + 1
    /\ UNCHANGED <<endpoints, call, sorted_endpoints, ncalls>>
    /\ UNCHANGED <<storeVars, cacheVars, snapVars, writerVars>>

\* exhausted with a fault: total exhaustion is raised to the caller
exhausted_raises ==
    /\ cpc = "loop"
    /\ idx > Len(sorted_endpoints)
    /\ result' = Raised
    /\ cpc' = "done"
    /\ UNCHANGED <<endpoints, success_history, cnow, call, sorted_endpoints,
                   idx, events, last_response, got200, ncalls>>
    /\ UNCHANGED <<storeVars, cacheVars, snapVars, writerVars>>

\* line 90: the loop ran out of endpoints
exhausted ==
    /\ cpc = "loop"
    /\ idx > Len(sorted_endpoints)
    /\ result' = ReturnedNone
    /\ cpc' = "done"
    /\ UNCHANGED <<endpoints, success_history, cnow, call, sorted_endpoints,
                   idx, events, last_response, got200, ncalls>>
    /\ UNCHANGED <<storeVars, cacheVars, snapVars, writerVars>>

NextClient ==
    \/ \E op \in Operations : make_request(op)
    \/ \E resp \in Responses : \E jsonerr \in JsonErrorsOf(resp) : attempt(resp, jsonerr)
    \/ exhausted

NextStore ==
    \/ \E w \in WriteOutcomes : construct(w)
    \/ \E id \in TrackIds, m \in MetaArgs, w \in WriteOutcomes :
            set_downloading(id, 0, m, w)
    \/ \E id \in TrackIds, p \in Progresses, w \in WriteOutcomes :
            update_progress(id, p, w)
    \/ \E id \in TrackIds, f \in Filenames, w \in WriteOutcomes :
            set_completed(id, f, NoneMeta, w)
    \/ \E id \in TrackIds, e \in Errors, w \in WriteOutcomes :
            set_failed(id, e, NoneMeta, w)
    \/ \E id \in TrackIds, w \in WriteOutcomes : clear_download(id, w)
    \/ \E t \in Clock : tick(t)
    \/ restart

\* TidalAPIClient.__init__ (line 20) with the rest of the client and the
\* store left aside
InitCache ==
    /\ download_status_cache = EmptyMap
    /\ know = 0
    /\ puts = EmptyMap
    /\ endpoints = <<>>
    /\ success_history = <<>>
    /\ cnow = 0
    /\ cpc = "idle"
    /\ call = [path |-> "", operation |-> NoneOp]
    /\ sorted_endpoints = <<>>
    /\ idx = 0
    /\ events = <<>>
    /\ last_response = TransportFailure
    /\ result = Pending
    /\ got200 = FALSE
    /\ ncalls = 0
    /\ state = EmptyState
    /\ disk = Missing
    /\ snow = 0
    /\ spc = "new"
    /\ loaded = EmptyState
    /\ last_call = NoCall
    /\ wrote = FALSE
    /\ write_failed = FALSE
    /\ nops = 0
    /\ nfail = 0
    /\ started_empty = TRUE
    /\ SnapIdle
    /\ WritersIdle

NextCache ==
    \/ \E id \in CacheIds, s \in Statuses : set_download_status(id, s)
    \/ \E id \in CacheIds : clear_download_status(id)
    \/ cleanup_old_status_cache
    \/ \E t \in CacheClock : cache_tick(t)

\* the store constructed at time 0 over a document an earlier process left
InitSnapshot ==
    /\ state \in OldDocs
    /\ disk = JsonFile(json_dump(state))
    /\ snow = 0
    /\ spc = "ready"
    /\ loaded = state
    /\ last_call = [NoCall EXCEPT !.op = "construct"]
    /\ wrote = FALSE
    /\ write_failed = FALSE
    /\ nops = 0
    /\ nfail = 0
    /\ started_empty = FALSE
    /\ snapshot = EmptyMap
    /\ snap_of = "none"
    /\ endpoints = <<>>
    /\ success_history = <<>>
    /\ cnow = 0
    /\ cpc = "idle"
    /\ call = [path |-> "", operation |-> NoneOp]
    /\ sorted_endpoints = <<>>
    /\ idx = 0
    /\ events = <<>>
    /\ last_response = TransportFailure
    /\ result = Pending
    /\ got200 = FALSE
    /\ ncalls = 0
    /\ CacheIdle
    /\ WritersIdle

NextSnapshot ==
    \/ get_all_active
    \/ get_all_completed
    \/ get_all_failed
    \/ \E id \in TrackIds : caller_add(track_id_str(id))
    \/ \E id \in TrackIds : caller_del(track_id_str(id))
    \/ \E id \in TrackIds, field \in {"progress", "timestamp", "filename", "error"} :
            \E val \in FieldValues(field) : caller_set(track_id_str(id), field, val)

\* the store constructed without a file, two threads about to call it
InitWriters ==
    /\ state = EmptyState
    /\ disk = Missing
    /\ snow = 0
    /\ spc = "ready"
    /\ loaded = EmptyState
    /\ last_call = [NoCall EXCEPT !.op = "construct"]
    /\ wrote = FALSE
    /\ write_failed = FALSE
    /\ nops = 0
    /\ nfail = 0
    /\ started_empty = TRUE
    /\ wpc = [t \in Threads |-> "idle"]
    /\ wbuf = [t \in Threads |-> NoBuffer]
    /\ endpoints = <<>>
    /\ success_history = <<>>
    /\ cnow = 0
    /\ cpc = "idle"
    /\ call = [path |-> "", operation |-> NoneOp]
    /\ sorted_endpoints = <<>>
    /\ idx = 0
    /\ events = <<>>
    /\ last_response = TransportFailure
    /\ result = Pending
    /\ got200 = FALSE
    /\ ncalls = 0
    /\ CacheIdle
    /\ SnapIdle

NextWriters ==
    \/ \E t \in Threads, id \in TrackIds, p \in Progresses : w_set_downloading(t, id, p)
    \/ \E t \in Threads, id \in TrackIds, p \in Progresses : w_update_progress(t, id, p)
    \/ \E t \in Threads, id \in TrackIds, f \in Filenames : w_set_completed(t, id, f)
    \/ \E t \in Threads, id \in TrackIds, e \in Errors : w_set_failed(t, id, e)
    \/ \E t \in Threads : w_open(t)
    \/ \E t \in Threads : w_dump(t)
    \/ \E t \in Threads : w_close(t)

SpecClient == InitClient /\ [][NextClient]_vars

SpecCache == InitCache /\ [][NextCache]_vars

SpecSnapshot == InitSnapshot /\ [][NextSnapshot]_vars

SpecWriters == InitWriters /\ [][NextWriters]_vars

SpecStore == InitStore /\ [][NextStore]_vars

----------------------------------------------------------------------------
(* Claims about TidalAPIClient, checked under SpecClient                   *)

RegistryNames == {endpoints[i].name : i \in 1..Len(endpoints)}

\* the GETs of the running call, in the order they were issued
Gets == SelectSeq(events, LAMBDA e : e.do = "GET")

\* the endpoints ordered by their static (priority, name) alone
StaticOrder == sorted(endpoints)

\* s without its elements named n
Without(s, n) == SelectSeq(s, LAMBDA e : e.name # n)

\* C1: sticky routing.  Whenever the success history holds a record for an
\* operation op that names an endpoint X of the registry, the sequence
\* order_for(op) = _sort_endpoints_by_priority(op) starts with X, whatever
\* the static priority and the name of X.  (Stated of the states in which
\* no call is running: those in which a caller can ask for the order.)
C1_StickyFirst ==
    \A op \in DOMAIN success_history :
        (cpc \in {"idle", "done"} /\ Truthy(op) /\ op \in Operations
            /\ success_history[op].name \in RegistryNames)
        => sort_endpoints_by_priority(op)[1].name = success_history[op].name

\* C3: first 200 wins.  The GETs of a call go to the endpoints in the order
\* returned by order_for, one endpoint per GET; as soon as an endpoint has
\* answered HTTP 200 the call is over, its result is that endpoint's body,
\* and that endpoint is the last one requested in the call.
C3_First200Wins ==
    /\ \A i \in 1..Len(Gets) : Gets[i].name = sorted_endpoints[i].name
    /\ got200 =>
        /\ cpc = "done"
        /\ result = Body(sorted_endpoints[Len(Gets)])
        /\ last_response.status = 200

\* C4: exhaustion is a soft failure.  A call in which no endpoint answered
\* HTTP 200 never raises; while it runs it has requested exactly the
\* endpoints before the loop position, and when it is over it has returned
\* None after requesting every endpoint of the registry exactly once.
C4_ExhaustionSoft ==
    ~got200 =>
        /\ result # Raised
        /\ cpc = "loop" =>
            /\ idx <= Len(endpoints) + 1
            /\ Len(Gets) = idx - 1
        /\ cpc = "done" =>
            /\ result = ReturnedNone
            /\ Len(Gets) = Len(endpoints)
            /\ \A n \in RegistryNames :
                Cardinality({i \in 1..Len(Gets) : Gets[i].name = n}) = 1

\* a call that ended in exhaustion after a 429, a transport failure and
\* another non-200 status
C4_Witness ==
    /\ cpc = "done" /\ ~got200 /\ result = ReturnedNone
    /\ Len(Gets) = Len(endpoints)
    /\ \E i \in 1..Len(events) : events[i].do = "sleep"
    /\ last_response = TransportFailure
    /\ cnow = RateLimitDelay

\* C5: rate-limit handling.  A sleep happens only right after the GET that
\* was answered 429, exactly once and for 2s, before the next GET; after a
\* 500, a 404 or a transport failure the last event is the GET itself; the
\* GET after a 429 goes to the next endpoint of the order, never to the
\* rate-limited one again; and a 200 from that next endpoint ends the call
\* with that endpoint's body as the result.
C5_RateLimit ==
    /\ \A i \in 1..Len(events) :
        events[i].do = "sleep" =>
            /\ events[i].secs = RateLimitDelay
            /\ i > 1 /\ events[i - 1].do = "GET"
    /\ (events # <<>> /\ last_response # TransportFailure
            /\ last_response.status = 429)
        => events[Len(events)] = Sleep(RateLimitDelay)
    /\ (events # <<>> /\ (last_response = TransportFailure
            \/ last_response.status \in {500, 404}))
        => events[Len(events)].do = "GET"
    /\ \A i \in 1..Len(Gets) : Gets[i].name = sorted_endpoints[i].name
    /\ (Len(events) >= 3 /\ events[Len(events) - 1].do = "sleep"
            /\ events[Len(events)].do = "GET" /\ last_response.status = 200)
        => /\ cpc = "done"
           /\ result = Body(sorted_endpoints[Len(Gets)])

\* C10: overwrite, not accumulate.  When the record of an operation op that
\* named X is replaced, by a call that returns, by a record naming Y # X,
\* the history holds for op
\* the one record naming Y, Y is first in order_for(op), and X stands among
\* the other endpoints where its static (priority, name) puts it.
C10_Overwrite ==
    [][\A op \in DOMAIN success_history :
        (cpc' = "done" /\ Truthy(op) /\ op \in Operations
            /\ success_history'[op].name # success_history[op].name)
        => LET X == success_history[op].name
               Y == success_history'[op].name
               order == (sort_endpoints_by_priority(op))'
           IN  /\ order[1].name = Y
               /\ Without(order, Y) = Without(StaticOrder, Y)
               /\ \E i \in 1..Len(order) : order[i].name = X]_vars

----------------------------------------------------------------------------
(* Claims about DownloadStateManager, checked under SpecStore              *)

Categories == {"active", "completed", "failed"}

Keys == {StrKey(id) : id \in TrackIds}

\* the mappings of st restricted to the keys other than k
Others(st, k) ==
    [c \in Categories |-> [x \in DOMAIN st[c] \ {k} |-> st[c][x]]]

\* C2: single-state invariant.  In every state a store that started empty
\* reaches by its operations, no item_id is a key of more than one of
\* active, completed and failed.
C2_SingleState ==
    (spc = "ready" /\ started_empty) =>
        \A k \in Keys :
            Cardinality({c \in Categories : k \in DOMAIN state[c]}) <= 1

\* C6: completion transition.  After set_completed(id, f) the item is absent
\* from active and present in completed with filename f, get(id) returns
\* that completed entry tagged "completed", and the entries of every other
\* item_id are what they were.
C6_Completion ==
    [][last_call'.op = "set_completed" =>
        LET id == last_call'.id
            k  == StrKey(id)
        IN  /\ k \notin DOMAIN state'.active
            /\ k \in DOMAIN state'.completed
            /\ state'.completed[k].filename = last_call'.text
            /\ get_download_state(state', id) =
                    [status |-> "completed", entry |-> state'.completed[k]]
            /\ Others(state', k) = Others(state, k)]_vars

\* item 7 was active, set_completed moved it, and item 8 is still active
C6_Witness ==
    /\ last_call.op = "set_completed" /\ last_call.id = 7 /\ last_call.was_active
    /\ StrKey(7) \in DOMAIN state.completed
    /\ StrKey(8) \in DOMAIN state.active

\* C7: persist after the initial sweep.  When the construction removed an
\* expired entry (and its write, if any, succeeded), the document in the
\* file is the swept in-memory state.
C7_PersistAfterSweep ==
    (last_call.op = "construct" /\ state # loaded /\ ~write_failed)
        => /\ disk.kind = "json"
           /\ load_state(disk) = state

\* C8: expiry on construction.  Constructing a store at time now removes
\* exactly the completed and failed entries whose age now - recorded_at is
\* greater than 3600; the other completed and failed entries and all the
\* active entries are kept as they were loaded.
C8_ExpiryOnConstruction ==
    last_call.op = "construct" =>
        /\ state.active = loaded.active
        /\ \A c \in {"completed", "failed"} :
            /\ DOMAIN state[c] =
                {k \in DOMAIN loaded[c] : snow - loaded[c][k].timestamp <= 3600}
            /\ \A k \in DOMAIN state[c] : state[c][k] = loaded[c][k]

\* a construction that removed an entry of age 3601, kept an entry of age
\* exactly 3600 and kept an active entry of age 3601
C8_Witness ==
    /\ last_call.op = "construct"
    /\ \E c \in {"completed", "failed"} :
        \E k \in DOMAIN loaded[c] : k \notin DOMAIN state[c]
    /\ \E c \in {"completed", "failed"} :
        \E k \in DOMAIN state[c] : snow - state[c][k].timestamp = 3600
    /\ \E k \in DOMAIN state.active : snow - state.active[k].timestamp > 3600

\* C9: durability round trip.  Once a mutating operation has written and no
\* write has failed, what _load_state reads from the file is the in-memory
\* state: the same active, completed and failed mappings.
C9_RoundTrip ==
    (spc = "ready" /\ wrote /\ ~write_failed)
        => /\ disk.kind = "json"
           /\ load_state(disk) = state

\* the file holds, after an update_progress, an active entry with metadata
\* next to a completed entry
C9_Witness ==
    /\ spc = "ready" /\ wrote /\ ~write_failed
    /\ last_call.op = "update_progress" /\ last_call.was_active
    /\ \E k \in DOMAIN state.active : state.active[k].metadata # {}
    /\ state.completed # EmptyMap
    /\ load_state(disk) = state

----------------------------------------------------------------------------
(* Claims about the download status cache, checked under SpecCache         *)

\* C11: status cache freshness.  After set_download_status(id, s) with no
\* later set or clear for id, get_download_status(id) returns s while the
\* age of the entry is below 300 and returns nothing once the age exceeds
\* 300, swept or not; and whatever get returns is the status last set, of
\* age at most 300.
C11_CacheFreshness ==
    \A id \in CacheIds :
        LET got == get_download_status(download_status_cache, id, know)
        IN  /\ id \in DOMAIN puts =>
                /\ know - puts[id].timestamp < 300 => got = SomeStatus(puts[id].status)
                /\ know - puts[id].timestamp > 300 => got = NoStatus
            /\ got # NoStatus =>
                /\ id \in DOMAIN puts
                /\ got = SomeStatus(puts[id].status)
                /\ know - puts[id].timestamp <= 300

\* an entry older than the TTL is still in the cache (no sweep ran) and is
\* not returned, next to a fresh entry that is
C11_Witness ==
    /\ 1 \in DOMAIN download_status_cache
    /\ know - download_status_cache[1].timestamp > 300
    /\ get_download_status(download_status_cache, 1, know) = NoStatus
    /\ 2 \in DOMAIN download_status_cache
    /\ get_download_status(download_status_cache, 2, know) = SomeStatus("queued")

----------------------------------------------------------------------------
(* Further claims about the download state store, checked under SpecStore  *)

\* whether the file holds a document with the three mappings
HoldsState(file) ==
    file.kind = "json" /\ {"active", "completed", "failed"} \subseteq DOMAIN file.doc

\* C12: corrupt or malformed persisted state is recoverable.  Whatever the
\* file holds that is not a document of the three mappings (missing,
\* unparsable, parsable but of the wrong shape), construction does not fail
\* and the store starts with three empty mappings.
C12_Recoverable ==
    [][(spc = "new" /\ spc' # "new" /\ ~HoldsState(disk))
        => (spc' = "ready" /\ state' = EmptyState)]_vars

MutatingOps ==
    {"set_downloading", "update_progress", "set_completed", "set_failed",
     "clear_download"}

\* the in-memory states the call c, made at time t in state st, can leave
Effects(st, c, t) ==
    CASE c.op = "set_downloading" ->
            {set_downloading_state(st, c.id, c.num, m, t) : m \in MetaArgs}
      [] c.op = "update_progress" ->
            {IF c.was_active THEN update_progress_state(st, c.id, c.num, t) ELSE st}
      [] c.op = "set_completed" ->
            {set_completed_state(st, c.id, c.text, m, t) : m \in MetaArgs}
      [] c.op = "set_failed" ->
            {set_failed_state(st, c.id, c.text, m, t) : m \in MetaArgs}
      [] c.op = "clear_download" -> {clear_download_state(st, c.id)}
      [] OTHER -> {st}

\* C13: write failure is swallowed.  When the write fails during a mutating
\* operation, the operation completes without raising, the in-memory state
\* is what the operation makes it, and the file is left as it was before
\* the operation.
C13_WriteFailureSwallowed ==
    [][(nfail' > nfail /\ last_call'.op \in MutatingOps)
        => /\ spc' = "ready"
           /\ state' \in Effects(state, last_call', snow)
           /\ disk' = disk]_vars

----------------------------------------------------------------------------
(* Claims about returned mappings, checked under SpecSnapshot              *)

\* C14: snapshots do not alias.  Whatever a caller does to the mapping
\* returned by get_all_active / get_all_completed / get_all_failed (adding
\* or removing a key, changing a field of a returned entry), the store's
\* three mappings and what get_download_state returns stay as they were.
C14_NoAlias ==
    [][/\ state' = state
       /\ \A id \in TrackIds :
            get_download_state(state', id) = get_download_state(state, id)]_vars

----------------------------------------------------------------------------
(* Claims about concurrent callers of the store, checked under SpecWriters *)

\* C15: overlapping writers are excluded.  When two mutating operations
\* run concurrently, once both have finished their writes the file holds the in-memory
\* state, with the effect of both operations: no write of one is cut or
\* overwritten by a write of the other.
C15_WritersExcluded ==
    (\A t \in Threads : wpc[t] = "done") => disk = JsonFile(json_dump(state))

----------------------------------------------------------------------------
(* Further frame claims about the store, checked under SpecStore           *)

\* C16: update_progress on a non-active item is a no-op.  If the item is
\* not in active (absent, or only in completed or failed), update_progress
\* changes none of the three mappings and writes nothing; if it is active,
\* only the progress and the timestamp of its entry change: its metadata
\* and every other entry are what they were.
C16_UpdateProgressFrame ==
    [][(last_call'.op = "update_progress" /\ nops' = nops + 1) =>
        LET k == StrKey(last_call'.id)
        IN  IF k \in DOMAIN state.active
            THEN /\ state'.completed = state.completed
                 /\ state'.failed = state.failed
                 /\ DOMAIN state'.active = DOMAIN state.active
                 /\ \A x \in DOMAIN state.active \ {k} :
                        state'.active[x] = state.active[x]
                 /\ state'.active[k] =
                        [progress |-> last_call'.num, timestamp |-> snow,
                         metadata |-> state.active[k].metadata]
            ELSE /\ state' = state
                 /\ disk' = disk
                 /\ nfail' = nfail
                 /\ wrote' = wrote]_vars

\* update_progress was called for item 7, which is in completed only, next
\* to the active item 8
C16_Witness ==
    /\ last_call.op = "update_progress" /\ last_call.id = 7 /\ ~last_call.was_active
    /\ StrKey(7) \in DOMAIN state.completed
    /\ StrKey(7) \notin DOMAIN state.active
    /\ StrKey(8) \in DOMAIN state.active

----------------------------------------------------------------------------
(* Further claims about TidalAPIClient, checked under SpecClient           *)

\* the endpoint a record of the success history promotes for op, if any
Promoted(op) ==
    IF op \in DOMAIN success_history THEN {success_history[op].name} ELSE {}

\* C17: order_for is a deterministic permutation.  For every registry,
\* operation and success history, _sort_endpoints_by_priority(op) holds
\* every endpoint of the registry exactly once, and any two endpoints that
\* are not the one promoted for op stand in ascending order of (static
\* priority, name), the name deciding between equal priorities.  (Stated of
\* the states in which no call is running: those in which a caller can ask
\* for the order.)
C17_Permutation ==
    cpc \in {"idle", "done"} =>
    \A op \in Operations :
        \A order \in {sort_endpoints_by_priority(op)} :
            /\ Len(order) = Len(endpoints)
            /\ \A i \in 1..Len(endpoints) :
                    Cardinality({j \in 1..Len(order) : order[j] = endpoints[i]}) = 1
            /\ \A i, j \in 1..Len(order) :
                    (i < j /\ order[i].name \notin Promoted(op)
                           /\ order[j].name \notin Promoted(op))
                    => \/ order[i].priority < order[j].priority
                       \/ /\ order[i].priority = order[j].priority
                          /\ NameRank(order[i].name) < NameRank(order[j].name)

\* a call has ended, the history holds a record, and the registry lists two
\* endpoints of equal priority against the order of their names
C17_Witness ==
    /\ cpc = "done"
    /\ "search_tracks" \in DOMAIN success_history
    /\ \E i, j \in 1..Len(endpoints) :
            /\ i < j
            /\ endpoints[i].priority = endpoints[j].priority
            /\ NameRank(endpoints[j].name) < NameRank(endpoints[i].name)

\* C18: the registry is never mutated after load.  No step of a call
\* (ordering the endpoints, recording a success, trying an endpoint)
\* changes the registry list: its membership, its order, or the name, url
\* or static priority of an endpoint.
C18_RegistryImmutable ==
    [][endpoints' = endpoints]_vars

\* a second call has been ordered while the history held a record for its
\* operation naming an endpoint of the registry
C18_Witness ==
    /\ ncalls = 2
    /\ cpc = "loop"
    /\ idx = 1
    /\ Truthy(call.operation)
    /\ call.operation \in DOMAIN success_history
    /\ success_history[call.operation].name \in RegistryNames
    /\ \A i \in 1..Len(endpoints) : endpoints[i].priority \in Priorities

----------------------------------------------------------------------------
(* Claims about sequences of transitions, checked under SpecStore          *)

\* the state tag each transition writes
TagOf(op) ==
    CASE op = "set_downloading" -> "downloading"
      [] op = "set_completed" -> "completed"
      [] op = "set_failed" -> "failed"

\* C19: get reports the latest transition.  After any sequence of
\* set_downloading, set_completed and set_failed calls on a store that
\* started empty, get_download_state(id) for the id of the most recent
\* call returns the state tag and the entry that call wrote.
C19_LatestTransition ==
    (spc = "ready" /\ started_empty
        /\ last_call.op \in {"set_downloading", "set_completed", "set_failed"})
    => LET got == get_download_state(state, last_call.id)
       IN  /\ got.status = TagOf(last_call.op)
           /\ last_call.op = "set_downloading" => got.entry.progress = last_call.num
           /\ last_call.op = "set_completed" => got.entry.filename = last_call.text
           /\ last_call.op = "set_failed" => got.entry.error = last_call.text

----------------------------------------------------------------------------
(* Claims about the success history, checked under SpecClient              *)

\* the key _make_request records under: `operation or path`
RecordKey == IF Truthy(call.operation) THEN call.operation ELSE call.path

\* C20: the success history tracks returned results only.  A call changes
\* the success history only by the step that returns a response document,
\* and then only the record of its own operation, which names the endpoint
\* whose body was returned; a call that ends without a result, or an
\* endpoint whose 200 body does not parse, changes no record.
C20_HistoryTracksResults ==
    [][success_history' # success_history =>
        /\ cpc' = "done"
        /\ result'.kind = "body"
        /\ success_history'[RecordKey].name = result'.from
        /\ \A k \in DOMAIN success_history \ {RecordKey} :
                k \in DOMAIN success_history' /\ success_history'[k] = success_history[k]
        /\ DOMAIN success_history' \subseteq DOMAIN success_history \cup {RecordKey}]_vars

=============================================================================
